---------------------------- MODULE Spec2Model ----------------------------
(***************************************************************************)
(* Gaussian plume calculator (src/app.py): the stability classifier, the   *)
(* Pasquill-Gifford sigma functions, the plume equation and the Calculate  *)
(* handler of the Streamlit form.                                          *)
(*                                                                         *)
(* Numbers.  Python floats are binary64.  The model keeps two ranges of    *)
(* them, each as a tagged integer [unit, n]:                               *)
(*   unit "m"   : a distance of n whole metres (n may be negative);        *)
(*   unit "dmm" : a length of n * 10^-4 m, the resolution sigma values are *)
(*                computed to;                                             *)
(*   unit "q"   : n * 2^-1074, the subnormal doubles next to 0.  For these *)
(*                binary64 is exact fixed-point arithmetic in units of the *)
(*                smallest double: a product c * x is the nearest integer  *)
(*                multiple of 2^-1074, and a square underflows to 0.0.     *)
(* Wind speed is an integer number of tenths of m/s, cloud cover a whole   *)
(* percentage, and Q, H, y are whole numbers.                              *)
(***************************************************************************)
EXTENDS Integers, Sequences, FiniteSets

\* ------------------------------------------------------------- bounds
MaxWind == 70
MinWind == 10
MaxCloudOver == 10
MaxKm == 12
MaxQuanta == 60
MaxAmount == 2
MaxSigma == 2
MaxFormKm == 3
MaxFormQuanta == 3

\* --------------------------------------------------------- number model
Metres(m) == [unit |-> "m", n |-> m]
Dmm(n) == [unit |-> "dmm", n |-> n]
Quanta(k) == [unit |-> "q", n |-> k]
Zero == Dmm(0)

\* v == 0 / v == 0.0
IsZero(v) == v.n = 0
\* v ** 2 == 0.0: v is 0, or v is subnormal and its square underflows
SquareIsZero(v) == v.n = 0 \/ v.unit = "q"

\* Nearest integer to (c * k) / den; the exact product of a binary64
\* coefficient and an integer is never a tie, so a tie of the decimal
\* product goes the way the coefficient's double errs (up: above the decimal)
RoundMul(c, den, k, up) ==
    LET p == c * k
        fl == p \div den
        r2 == 2 * (p % den)
    IN  IF r2 > den \/ (r2 = den /\ up) THEN fl + 1 ELSE fl

Outcome(e, v) == [err |-> e, val |-> v]
Return(v) == Outcome("none", v)
Raise(e) == Outcome(e, Zero)

\* ------------------------------------------------- stability classifier
Classes == <<"A", "B", "C", "D", "E", "F">>
ClassSet == {Classes[i] : i \in 1..Len(Classes)}

\* variant: the bands closed on the high side (<= at 2, 3, 5, 6)
compute_stability_class_ge(wind_speed_, cloud_cover_) ==
    IF wind_speed_ <= 20 THEN (IF cloud_cover_ < 40 THEN "A" ELSE "B")
    ELSE IF 20 < wind_speed_ /\ wind_speed_ <= 30
        THEN (IF cloud_cover_ < 40 THEN "B" ELSE "C")
    ELSE IF 30 < wind_speed_ /\ wind_speed_ <= 50
        THEN (IF cloud_cover_ < 40 THEN "C" ELSE "D")
    ELSE IF 50 < wind_speed_ /\ wind_speed_ <= 60 THEN "D"
    ELSE "E"

\* variant: a sixth band that yields F from 7 m/s
compute_stability_class_F(wind_speed_, cloud_cover_) ==
    IF wind_speed_ < 20 THEN (IF cloud_cover_ < 40 THEN "A" ELSE "B")
    ELSE IF 20 <= wind_speed_ /\ wind_speed_ < 30
        THEN (IF cloud_cover_ < 40 THEN "B" ELSE "C")
    ELSE IF 30 <= wind_speed_ /\ wind_speed_ < 50
        THEN (IF cloud_cover_ < 40 THEN "C" ELSE "D")
    ELSE IF 50 <= wind_speed_ /\ wind_speed_ < 60 THEN "D"
    ELSE IF wind_speed_ < 70 THEN "E"
    ELSE "F"

\* wind speed in tenths of m/s: the thresholds 2, 3, 5, 6 are 20, 30, 50, 60
compute_stability_class(wind_speed_, cloud_cover_) ==
    IF wind_speed_ < 20 THEN (IF cloud_cover_ < 40 THEN "A" ELSE "B")
    ELSE IF 20 <= wind_speed_ /\ wind_speed_ < 30
        THEN (IF cloud_cover_ < 40 THEN "B" ELSE "C")
    ELSE IF 30 <= wind_speed_ /\ wind_speed_ < 50
        THEN (IF cloud_cover_ < 40 THEN "C" ELSE "D")
    ELSE IF 50 <= wind_speed_ /\ wind_speed_ < 60 THEN "D"
    ELSE "E"

\* ------------------------------------------------------ sigma functions
\* floor(10^12 / d) for 0 < d, in 32-bit steps
Div1e12(d) == ((10^9) \div d) * 1000 + (((10^9) % d) * 1000) \div d

RECURSIVE ISqrtIn(_, _, _)
\* the largest s in lo..hi with s * s <= v
ISqrtIn(v, lo, hi) ==
    IF lo >= hi THEN lo
    ELSE LET mid == (lo + hi + 1) \div 2
         IN  IF mid * mid <= v THEN ISqrtIn(v, mid, hi) ELSE ISqrtIn(v, lo, mid - 1)

\* the nearest integer to sqrt(v), 0 <= v <= 10^8
RoundSqrt(v) ==
    LET s == ISqrtIn(v, 0, 10000)
    IN  IF v - s * s > s THEN s + 1 ELSE s

\* (1 + 0.0001 * x) ** -0.5 for x = m metres, in units of 10^-4:
\* 10^4 / sqrt(1 + m / 10^4) = sqrt(10^12 / (10^4 + m)).  The factor is
\* kept to 4 decimal digits where binary64 keeps 16: values agree with the
\* code's to about 5 parts in 10^5, not to the last bit.
CorrFactor(m) == RoundSqrt(Div1e12(10000 + m))

\* (c / 100 * m metres) * (f / 10^4), in dmm, to the nearest unit
TimesFactor(c, m, f) ==
    LET p == c * m
        r == (p % 100) * f
    IN  (p \div 100) * f + r \div 100 + (IF 2 * (r % 100) >= 100 THEN 1 ELSE 0)

Norm(v) == IF v.n = 0 THEN Zero ELSE v

\* the coefficients of sigma_y in hundredths, of sigma_z in thousandths
SigmaYCoef == [A |-> 22, B |-> 16, C |-> 11, D |-> 8, E |-> 6, F |-> 4]
\* variant: 0.3 for 0.03 in class E
SigmaZCoef_E03 == [A |-> 200, B |-> 120, C |-> 80, D |-> 60, E |-> 300, F |-> 16]
SigmaZCoef == [A |-> 200, B |-> 120, C |-> 80, D |-> 60, E |-> 30, F |-> 16]
\* the coefficients whose binary64 value lies above the decimal literal
SigmaYAbove == {"A", "B", "C", "D", "F"}
SigmaZAbove == {"A", "C", "F"}

\* one entry of sigma_y's dict: a * x * ((1 + 0.0001 * x) ** -0.5); for a
\* subnormal x, 1 + 0.0001 * x == 1.0 and the factor is exactly 1.0
SigmaYEntry(c, x_) ==
    IF x_.unit = "q"
    THEN Norm(Quanta(RoundMul(SigmaYCoef[c], 100, x_.n, c \in SigmaYAbove)))
    ELSE Norm(Dmm(TimesFactor(SigmaYCoef[c], x_.n, CorrFactor(x_.n))))

\* one entry of sigma_z's dict: b * x
SigmaZEntry(c, x_) ==
    IF x_.unit = "q"
    THEN Norm(Quanta(RoundMul(SigmaZCoef[c], 1000, x_.n, c \in SigmaZAbove)))
    ELSE Norm(Dmm(SigmaZCoef[c] * x_.n * 10))

\* variant: an unknown key falls back to class D (dict.get with a default)
sigma_y_default(x_, S) ==
    IF S \in ClassSet THEN Return(SigmaYEntry(S, x_)) ELSE Return(SigmaYEntry("D", x_))

\* the dict literal, then [S]: a key that is not in it raises KeyError
sigma_y(x_, S) ==
    IF S \in ClassSet THEN Return(SigmaYEntry(S, x_)) ELSE Raise("KeyError")

sigma_z(x_, S) ==
    IF S \in ClassSet THEN Return(SigmaZEntry(S, x_)) ELSE Raise("KeyError")

\* ------------------------------------------------ Gaussian plume equation
\* variant: y for y ** 2 in the crosswind exponent
gaussian_y(Q_, u, H_, x_, y_, sy_, sz_) ==
    IF u = 0 \/ IsZero(sy_) \/ IsZero(sz_) \/ SquareIsZero(sy_) \/ SquareIsZero(sz_)
    THEN Raise("ZeroDivisionError")
    ELSE Return([coef |-> <<Q_, u, sy_, sz_>>,
                 ey |-> <<y_, sy_>>,
                 eh |-> <<H_ * H_, sz_>>])

\* Q / (2*pi*u*sy*sz) * exp(-(y**2) / (2*sy**2)) * exp(-(H**2) / (2*sz**2)).
\* A float division by 0.0 raises ZeroDivisionError: the first factor when
\* u, sy or sz is 0, an exponent when 2 * sy ** 2 or 2 * sz ** 2 is 0.0.
\* Otherwise the value is the one its three factors' operands determine; it
\* is kept as those operands (sy ** 2 and sz ** 2 as sy and sz, both >= 0).
\* x is a parameter the body never reads.
gaussian(Q_, u, H_, x_, y_, sy_, sz_) ==
    IF u = 0 \/ IsZero(sy_) \/ IsZero(sz_) \/ SquareIsZero(sy_) \/ SquareIsZero(sz_)
    THEN Raise("ZeroDivisionError")
    ELSE Return([coef |-> <<Q_, u, sy_, sz_>>,
                 ey |-> <<y_ * y_, sy_>>,
                 eh |-> <<H_ * H_, sz_>>])

\* ---------------------------------------------------------------- state
VARIABLES wind_speed, cloud_cover, Q, H, x, y, out, last

vars == <<wind_speed, cloud_cover, Q, H, x, y, out, last>>
form == <<wind_speed, cloud_cover, Q, H, x, y>>

Call(op, args) == [op |-> op, args |-> args, done |-> FALSE, out |-> Raise("pending")]
NoCall == Call("none", <<>>)
Idle == [status |-> "idle"]

\* the widgets' value= defaults, nothing rendered
FormDefaults ==
    /\ wind_speed = 0
    /\ cloud_cover = 0
    /\ Q = 0
    /\ H = 0
    /\ x = Metres(0)
    /\ y = 0
    /\ out = Idle

Init ==
    /\ FormDefaults
    /\ last = NoCall

\* ------------------------------------------------- calls of the functions
WindArgs == (0 - MinWind)..MaxWind
CloudArgs == (0 - MaxCloudOver)..(100 + MaxCloudOver)

ClassifyCalls ==
    {Call("compute_stability_class", <<w, c>>) : w \in WindArgs, c \in CloudArgs}

InvalidTokens == {"G", "a", ""}
Tokens == ClassSet \cup InvalidTokens
\* distances >= 0: whole kilometres, and the smallest subnormal doubles
Distances ==
    {Metres(1000 * k) : k \in 0..MaxKm} \cup {Quanta(k) : k \in 1..MaxQuanta}

SigmaCalls ==
    {Call(f, <<d, S>>) : f \in {"sigma_y", "sigma_z"}, d \in Distances, S \in Tokens}

Amounts == (0 - 1)..MaxAmount
Offsets == (0 - MaxAmount)..MaxAmount
GaussDistances == {Metres(0 - 1000), Metres(0), Metres(1000), Quanta(1)}
GaussSigmas == {Zero, Quanta(1)} \cup {Dmm(10000 * k) : k \in 1..MaxSigma}

GaussianCalls ==
    {Call("gaussian", <<q, 10 * u, h, d, o, sy, sz>>) :
        q \in Amounts, u \in Amounts, h \in Amounts, d \in GaussDistances,
        o \in Offsets, sy \in GaussSigmas, sz \in GaussSigmas}

\* a caller's arguments, the call not yet made
InitApi ==
    /\ FormDefaults
    /\ last \in ClassifyCalls \cup SigmaCalls \cup GaussianCalls

Finish(result) ==
    /\ last.done = FALSE
    /\ last' = [last EXCEPT !.done = TRUE, !.out = result]
    /\ UNCHANGED <<form, out>>

CallClassify ==
    /\ last.op = "compute_stability_class"
    /\ Finish(Return(compute_stability_class(last.args[1], last.args[2])))

CallSigmaY ==
    /\ last.op = "sigma_y"
    /\ Finish(sigma_y(last.args[1], last.args[2]))

CallSigmaZ ==
    /\ last.op = "sigma_z"
    /\ Finish(sigma_z(last.args[1], last.args[2]))

CallGaussian ==
    /\ last.op = "gaussian"
    /\ LET a == last.args
       IN  Finish(gaussian(a[1], a[2], a[3], a[4], a[5], a[6], a[7]))

NextApi ==
    \/ CallClassify
    \/ CallSigmaY
    \/ CallSigmaZ
    \/ CallGaussian

SpecApi == InitApi /\ [][NextApi]_vars

\* ------------------------------------------------------------- the form
\* what a user may type: the widgets keep a value below min_value or above
\* max_value out
TypedWinds == {5 * k : k \in (0 - 1)..(MaxWind \div 5)}
TypedClouds == {20 * k : k \in (0 - 1)..6}
TypedAmounts == (0 - 1)..MaxAmount
TypedDistances ==
    {Metres(1000 * k) : k \in (0 - 1)..MaxFormKm}
        \cup {Quanta(k) : k \in 1..MaxFormQuanta}

\* a widget's new value reruns the script with calculate False: nothing of
\* the last calculation stays on the page
Rerun(v) ==
    /\ v >= 0
    /\ out' = Idle
    /\ UNCHANGED last

SetWindSpeed ==
    \E v \in TypedWinds :
        /\ Rerun(v)
        /\ wind_speed' = v
        /\ UNCHANGED <<cloud_cover, Q, H, x, y>>

SetCloudCover ==
    \E v \in TypedClouds :
        /\ Rerun(v)
        /\ v <= 100
        /\ cloud_cover' = v
        /\ UNCHANGED <<wind_speed, Q, H, x, y>>

SetQ ==
    \E v \in TypedAmounts :
        /\ Rerun(v)
        /\ Q' = v
        /\ UNCHANGED <<wind_speed, cloud_cover, H, x, y>>

SetH ==
    \E v \in TypedAmounts :
        /\ Rerun(v)
        /\ H' = v
        /\ UNCHANGED <<wind_speed, cloud_cover, Q, x, y>>

SetX ==
    \E v \in TypedDistances :
        /\ Rerun(v.n)
        /\ x' = v
        /\ UNCHANGED <<wind_speed, cloud_cover, Q, H, y>>

SetY ==
    \E v \in TypedAmounts :
        /\ Rerun(v)
        /\ y' = v
        /\ UNCHANGED <<wind_speed, cloud_cover, Q, H, x>>

\* ------------------------------------------------------ Calculate handler
stability_desc ==
    [A |-> "Very Unstable", B |-> "Unstable", C |-> "Slightly Unstable",
     D |-> "Neutral", E |-> "Slightly Stable", F |-> "Stable"]

\* variant: the table keeps the unrounded value
Round2_none(v) == v

\* round(v, 2): the nearest multiple of 0.01 (100 dmm), a tie to the even one
Round2(v) ==
    IF v.unit = "q" THEN Zero
    ELSE LET fl == v.n \div 100
             r == v.n % 100
         IN  Dmm(100 * (IF r > 50 \/ (r = 50 /\ fl % 2 = 1) THEN fl + 1 ELSE fl))

\* the rows of df, one per class
Table(x_) ==
    [i \in 1..Len(Classes) |->
        [Class |-> Classes[i],
         Condition |-> stability_desc[Classes[i]],
         sigma_y_m |-> Round2(sigma_y(x_, Classes[i]).val),
         sigma_z_m |-> Round2(sigma_z(x_, Classes[i]).val)]]

Calc(fn, args) == [fn |-> fn, args |-> args]

\* what the script renders after a press of Calculate.  An exception a call
\* raises is not caught: the script stops there and the page shows it.
\* calls: the calls of lines 162-166, in order.  The two charts drawn after
\* the table only plot sigma_y and sigma_z of the six classes and keep nothing.
Handler ==
    IF wind_speed = 0 \/ Q = 0 \/ H = 0 \/ IsZero(x)
    THEN [status |-> "missing", calls |-> <<>>]
    ELSE LET S_class == compute_stability_class(wind_speed, cloud_cover)
             sy == sigma_y(x, S_class)
             sz == sigma_z(x, S_class)
             C == gaussian(Q, wind_speed, H, x, y, sy.val, sz.val)
             c1 == <<Calc("compute_stability_class", <<wind_speed, cloud_cover>>)>>
             c2 == Append(c1, Calc("sigma_y", <<x, S_class>>))
             c3 == Append(c2, Calc("sigma_z", <<x, S_class>>))
             c4 == Append(c3, Calc("gaussian",
                                   <<Q, wind_speed, H, x, y, sy.val, sz.val>>))
         IN  IF sy.err # "none" THEN [status |-> sy.err, calls |-> c2]
             ELSE IF sz.err # "none" THEN [status |-> sz.err, calls |-> c3]
             ELSE IF C.err # "none" THEN [status |-> C.err, calls |-> c4]
             ELSE [status |-> "results", calls |-> c4, S_class |-> S_class,
                   sy |-> sy.val, sz |-> sz.val, C |-> C.val, df |-> Table(x)]

Calculate ==
    /\ out' = Handler
    /\ UNCHANGED <<form, last>>

Next ==
    \/ SetWindSpeed
    \/ SetCloudCover
    \/ SetQ
    \/ SetH
    \/ SetX
    \/ SetY
    \/ Calculate

Spec == Init /\ [][Next]_vars

\* ---------------------------------------------------------------- claims
Made(op) == last.done /\ last.op = op
MadeSigma == last.done /\ last.op \in {"sigma_y", "sigma_z"}
Sigma(f, x_, S) == IF f = "sigma_y" THEN sigma_y(x_, S) ELSE sigma_z(x_, S)
IsPositive(v) == v.n > 0

\* v1 < v2 for two non-negative values: every positive subnormal is below
\* every positive dmm value
Less(v1, v2) ==
    IF v1.unit = v2.unit THEN v1.n < v2.n
    ELSE IF v1.n = 0 \/ v2.n = 0 THEN v1.n = 0 /\ v2.n > 0
    ELSE v1.unit = "q"


\* the class the ordered bands of the claim give, cutoff 40, wind in tenths
BandClass(w, c) ==
    CASE w < 20 -> (IF c < 40 THEN "A" ELSE "B")
      [] w >= 20 /\ w < 30 -> (IF c < 40 THEN "B" ELSE "C")
      [] w >= 30 /\ w < 50 -> (IF c < 40 THEN "C" ELSE "D")
      [] w >= 50 /\ w < 60 -> "D"
      [] w >= 60 -> "E"

\* C1: for wind_speed >= 0 and cloud_cover in [0,100] the classifier returns
\* the class of the ordered bands with cutoff 40; a wind speed at a
\* threshold (2, 3, 5, 6) falls in the higher band; classify(1.5, 30) = A,
\* classify(2.5, 50) = C, classify(6.5, c) = E for every c.
C1_Bands ==
    (Made("compute_stability_class")
        /\ last.args[1] >= 0 /\ last.args[2] \in 0..100) =>
    LET w == last.args[1]
        c == last.args[2]
        r == last.out.val
    IN  /\ last.out.err = "none"
        /\ r = BandClass(w, c)
        /\ (w = 20 => r \in {"B", "C"})
        /\ (w = 30 => r \in {"C", "D"})
        /\ (w = 50 => r = "D")
        /\ (w = 60 => r = "E")
        /\ (w = 15 /\ c = 30 => r = "A")
        /\ (w = 25 /\ c = 50 => r = "C")
        /\ (w = 65 => r = "E")

C1_Witness ==
    /\ Made("compute_stability_class")
    /\ last.args = <<20, 40>>
    /\ last.out.val = "C"

\* C5: the classifier is total and never yields F: for every wind speed and
\* every cloud cover (negative and over 100 included) it returns one of
\* A, B, C, D, E and raises nothing.
C5_TotalNeverF ==
    Made("compute_stability_class") =>
        /\ last.out.err = "none"
        /\ last.out.val \in {"A", "B", "C", "D", "E"}

C5_Witness ==
    /\ Made("compute_stability_class")
    /\ last.args[1] < 0
    /\ last.args[2] > 100
    /\ last.out.val = "B"

\* C3: sigma_y(x, S) and sigma_z(x, S) with S not one of A..F end in the
\* failed-lookup error (Python's KeyError, the InvalidClass outcome) for
\* every x >= 0: no number is returned and no default class is used.
C3_InvalidClass ==
    (MadeSigma /\ last.args[2] \notin {"A", "B", "C", "D", "E", "F"}) =>
        /\ last.out.err = "KeyError"
        /\ last.out.err # "none"

C3_Witness ==
    /\ Made("sigma_y")
    /\ last.args = <<Metres(1000), "G">>
    /\ last.out.err = "KeyError"

\* C9: the concentration is symmetric in the crosswind offset:
\* gaussian(Q, u, H, x, y, sy, sz) = gaussian(Q, u, H, x, -y, sy, sz).
C9_SymmetricInY ==
    Made("gaussian") =>
        LET a == last.args
        IN  last.out = gaussian(a[1], a[2], a[3], a[4], 0 - a[5], a[6], a[7])

C9_Witness ==
    /\ Made("gaussian")
    /\ last.args[5] > 0
    /\ last.args[1] > 0
    /\ last.out.err = "none"

\* a concentration of exactly 0: the emission rate is 0
IsZeroConcentration(c) == c.coef[1] = 0

\* the other arguments of a gaussian call are in the contract's domain:
\* Q, u, H, x >= 0
InDomain(a) == a[1] >= 0 /\ a[2] >= 0 /\ a[3] >= 0 /\ a[4].n >= 0

\* C2: gaussian returns exactly 0, and no division error, whenever u = 0,
\* sigma_y = 0 or sigma_z = 0, the other inputs being any of the domain.
C2_ZeroNotError ==
    (Made("gaussian") /\ InDomain(last.args)
        /\ (last.args[2] = 0 \/ IsZero(last.args[6]) \/ IsZero(last.args[7]))) =>
        /\ last.out.err = "none"
        /\ IsZeroConcentration(last.out.val)

\* C4: a negative Q, H, x or u supplied to the concentration model is
\* rejected with an error (InvalidInput) before a concentration is
\* computed: no numeric result is returned for it.
C4_NegativeRejected ==
    (Made("gaussian") /\ ~InDomain(last.args)) => last.out.err # "none"

\* the class after S in A..E
NextClass(S) == CHOOSE c \in ClassSet : \E i \in 1..5 : Classes[i] = S /\ Classes[i + 1] = c

\* at distance x, the value of class S is strictly above the next class's
ChainAt(f, x_, S, v) == S # "F" => Less(Sigma(f, x_, NextClass(S)).val, v)

\* C6 as stated: for every x > 0 sigma(x, A) > sigma(x, B) > ... >
\* sigma(x, F) for sigma_y and for sigma_z; at x = 0 all values are 0.
C6_Original ==
    (MadeSigma /\ last.args[2] \in ClassSet) =>
        LET x_ == last.args[1]
        IN  /\ last.out.err = "none"
            /\ (x_.n > 0 => ChainAt(last.op, x_, last.args[2], last.out.val))
            /\ (x_.n = 0 => IsZero(last.out.val))

\* C6 as amended: the strict chain holds for every x >= 51 * 2^-1074 (about
\* 2.5e-322), for sigma_y and for sigma_z; at x = 0 all values are 0.  Below
\* that the products a(S) * x round to equal subnormals.
C6_Amended ==
    (MadeSigma /\ last.args[2] \in ClassSet) =>
        LET x_ == last.args[1]
        IN  /\ last.out.err = "none"
            /\ ((x_.n > 0 /\ (x_.unit = "m" \/ x_.n >= 51)) =>
                    ChainAt(last.op, x_, last.args[2], last.out.val))
            /\ (x_.n = 0 => IsZero(last.out.val))

C6_Witness ==
    /\ Made("sigma_z")
    /\ last.args = <<Quanta(51), "E">>
    /\ last.out.val = Quanta(2)
    /\ sigma_z(Quanta(51), "F").val = Quanta(1)

RowsInOrder ==
    /\ Len(out.df) = 6
    /\ \A i \in 1..6 :
        /\ out.df[i].Class = <<"A", "B", "C", "D", "E", "F">>[i]
        /\ out.df[i].Condition =
             <<"Very Unstable", "Unstable", "Slightly Unstable", "Neutral",
               "Slightly Stable", "Stable">>[i]
        /\ out.df[i].sigma_y_m.n >= 0
        /\ out.df[i].sigma_z_m.n >= 0

Distance(v1, v2) == IF v1.n >= v2.n THEN v1.n - v2.n ELSE v2.n - v1.n

\* C8 as stated: the table has exactly 6 rows in the order A..F, each with
\* its class's label and values >= 0 equal exactly to sigma_y(x, class) and
\* sigma_z(x, class).
C8_Original ==
    out.status = "results" =>
        /\ RowsInOrder
        /\ \A i \in 1..6 :
            /\ out.df[i].sigma_y_m = sigma_y(x, out.df[i].Class).val
            /\ out.df[i].sigma_z_m = sigma_z(x, out.df[i].Class).val

\* C8 as amended: 6 rows in the order A..F, each with its class's label and
\* values >= 0 that are sigma_y(x, class) and sigma_z(x, class) rounded to
\* 2 decimal places: a multiple of 0.01 at most 0.005 away.
C8_Amended ==
    out.status = "results" =>
        /\ RowsInOrder
        /\ \A i \in 1..6 :
            /\ out.df[i].sigma_y_m.n % 100 = 0
            /\ out.df[i].sigma_z_m.n % 100 = 0
            /\ Distance(out.df[i].sigma_y_m, sigma_y(x, out.df[i].Class).val) <= 50
            /\ Distance(out.df[i].sigma_z_m, sigma_z(x, out.df[i].Class).val) <= 50

C8_Witness ==
    /\ out.status = "results"
    /\ x = Metres(1000)
    /\ out.df[4].Class = "D"
    /\ out.df[4].sigma_y_m = Dmm(762800)
    /\ \E i \in 1..6 : out.df[i].sigma_y_m # sigma_y(x, out.df[i].Class).val

\* C10: after Calculate, if wind_speed, Q, H or x is 0 the handler reports
\* the missing-values error and makes no call; otherwise the class passed to
\* sigma_y and sigma_z is one of A..E, no lookup fails, and gaussian is
\* called with u > 0, sigma_y > 0 and sigma_z > 0: no division by zero.
C10_HandlerSafe ==
    out.status # "idle" =>
        IF wind_speed = 0 \/ Q = 0 \/ H = 0 \/ IsZero(x)
        THEN out.status = "missing" /\ out.calls = <<>>
        ELSE /\ out.status = "results"
             /\ Len(out.calls) = 4
             /\ out.calls[2].args[2] \in {"A", "B", "C", "D", "E"}
             /\ out.calls[3].args[2] = out.calls[2].args[2]
             /\ out.calls[4].args[2] > 0
             /\ IsPositive(out.calls[4].args[6])
             /\ IsPositive(out.calls[4].args[7])

=============================================================================
